---- MODULE Spec2Model ----
(***************************************************************************)
(* A model of mobilehound's abstract message cipher wrapper (package       *)
(* abstract: Cipher over a CipherState) and of its NIST curve point type   *)
(* (package nist: curvePoint), both from src/v0-abstract/cipher.go.        *)
(*                                                                         *)
(* Two state machines share the module.  Spec drives two Cipher values    *)
(* through the wrapper's methods; CurveSpec drives two curvePoint values   *)
(* through the point methods.  Each leaves the other's variables alone.    *)
(***************************************************************************)
EXTENDS Integers, Sequences, FiniteSets, TLC

\* The cipher machine: the two ciphers, the last call and its outcome, a
\* summary of the call before it, the last Seal(nil, src), the call count.
VARIABLES cs, last, prev, sealed, steps

\* The curve machine: the build's crypto/elliptic, the big.Int cells, the two
\* points, the last call and its outcome, a summary of the call before it,
\* the last encoding MarshalBinary returned, the call count.
VARIABLES strict, heap, pts, done, before, wire, ops

cipherVars == <<cs, last, prev, sealed, steps>>

curveVars == <<strict, heap, pts, done, before, wire, ops>>

vars == <<cs, last, prev, sealed, steps,
          strict, heap, pts, done, before, wire, ops>>

-----------------------------------------------------------------------------
(* Bounds of the exploration.                                              *)

\* Number of wrapper calls explored from the constructed ciphers.
MaxSteps == 2

\* Longest plaintext handed to Seal.
MaxLen == 1

-----------------------------------------------------------------------------
(* Bytes and byte slices.                                                  *)

Byte == 0..255

RECURSIVE XorBits(_, _, _)
XorBits(a, b, n) ==
    IF n = 0 THEN 0
    ELSE (((a % 2) + (b % 2)) % 2) + 2 * XorBits(a \div 2, b \div 2, n - 1)

\* XOR of two 4-bit halves, tabulated once.
XorTable == [a \in 0..15 |-> [b \in 0..15 |-> XorBits(a, b, 4)]]

\* Go's ^ on two bytes.
BXor(a, b) == 16 * XorTable[a \div 16][b \div 16] + XorTable[a % 16][b % 16]

Max2(a, b) == IF a >= b THEN a ELSE b

Max3(a, b, c) == Max2(a, Max2(b, c))

Zeros(n) == [i \in 1..n |-> 0]

\* A missing src or key byte is taken to be zero.
At0(s, i) == IF i <= Len(s) THEN s[i] ELSE 0

\* A Go byte slice: arr is its backing array from the slice's first element
\* to its capacity, len its length.  The nil slice has no backing array.
NilBuf == [arr |-> <<>>, len |-> 0]

Bytes(b) == SubSeq(b.arr, 1, b.len)

\* copy(arr[off:], bs)
WriteAt(arr, off, bs) ==
    [i \in 1..Len(arr) |->
        IF i > off /\ i <= off + Len(bs) THEN bs[i - off] ELSE arr[i]]

\* util.Grow(s, n): make room for n more bytes after s, in place when the
\* capacity allows and in a fresh array holding a copy of s otherwise.
\* off is where the new region starts; fresh tells whether s was moved.
Grow(s, n) ==
    IF s.len + n > Len(s.arr)
    THEN [buf |-> [arr |-> Bytes(s) \o Zeros(n), len |-> s.len + n],
          off |-> s.len, fresh |-> TRUE]
    ELSE [buf |-> [arr |-> s.arr, len |-> s.len + n],
          off |-> s.len, fresh |-> FALSE]

\* subtle.ConstantTimeAllEq(xs, y): 1 when every byte of xs equals y.
ConstantTimeAllEq(xs, y) ==
    IF \A i \in 1..Len(xs) : xs[i] = y THEN 1 ELSE 0

-----------------------------------------------------------------------------
(* The CipherState contract, realised by a one-byte duplex.                *)
(* h is the duplex state; open tells whether a message is in progress.     *)

KeySize == 2

HashSize == 2 * KeySize

\* The pseudorandom byte the state yields.
Squeeze(h) == (h * 167 + 13) % 256

\* Absorbing one key byte.
Absorb(h, k) == (h * 5 + k + 1) % 256

\* Closing a message: the boundary itself is absorbed.
Pad(h) == (h * 9 + 2) % 256

\* One duplex pass over max(dstLen, len(src), len(key)) bytes.  Byte i of the
\* output is src[i] XOR the squeezed byte; then key byte i is absorbed.  With
\* keyIsDst the key slice is the dst slice itself, so the byte absorbed is the
\* byte just written.
\* Byte i of a pass: src[i] XOR the squeezed byte.
DuplexOut(h, i, src) == BXor(At0(src, i), Squeeze(h))

\* The key byte absorbed after byte i.
DuplexKey(h, i, dstLen, src, key, keyIsDst) ==
    IF keyIsDst THEN (IF i <= dstLen THEN DuplexOut(h, i, src) ELSE 0)
    ELSE At0(key, i)

RECURSIVE Duplex(_, _, _, _, _, _, _, _)
Duplex(h, i, n, dstLen, src, key, keyIsDst, out) ==
    IF i > n THEN [h |-> h, out |-> out]
    ELSE Duplex(Absorb(h, DuplexKey(h, i, dstLen, src, key, keyIsDst)),
                i + 1, n, dstLen, src, key, keyIsDst,
                IF i <= dstLen THEN Append(out, DuplexOut(h, i, src))
                ELSE out)

\* The key bytes a pass absorbs, in order.
RECURSIVE Absorbed(_, _, _, _, _, _, _, _)
Absorbed(h, i, n, dstLen, src, key, keyIsDst, acc) ==
    IF i > n THEN acc
    ELSE Absorbed(Absorb(h, DuplexKey(h, i, dstLen, src, key, keyIsDst)),
                  i + 1, n, dstLen, src, key, keyIsDst,
                  Append(acc, DuplexKey(h, i, dstLen, src, key, keyIsDst)))

CallLen(dstLen, src, key, keyIsDst) ==
    Max3(dstLen, Len(src), IF keyIsDst THEN dstLen ELSE Len(key))

\* The state after a pass: a message is in progress.
InProgress(r) == [st |-> [h |-> r.h, open |-> TRUE], out |-> r.out]

\* The state after a pass that closes the message.
Idle(r) == [st |-> [h |-> Pad(r.h), open |-> FALSE], out |-> r.out]

\* CipherState.Partial(dst, src, key)
CSPartial(st, dstLen, src, key, keyIsDst) ==
    InProgress(Duplex(st.h, 1, CallLen(dstLen, src, key, keyIsDst),
                      dstLen, src, key, keyIsDst, <<>>))

\* CipherState.Message(dst, src, key)
CSMessage(st, dstLen, src, key, keyIsDst) ==
    Idle(Duplex(st.h, 1, CallLen(dstLen, src, key, keyIsDst),
                dstLen, src, key, keyIsDst, <<>>))

\* CipherState.Clone()
CSClone(st) == st

-----------------------------------------------------------------------------
(* The Cipher wrapper.  Every method yields the cipher's next state, the   *)
(* calls it made on the underlying CipherState, and what it returned.      *)

NoOut == [isNil |-> TRUE, bytes |-> <<>>]

Out(bs) == [isNil |-> FALSE, bytes |-> bs]

\* What a method that makes one call on the CipherState yields.
Called(name, r) == [st |-> r.st, calls |-> <<name>>, out |-> r.out]

CipherMessage(st, dstLen, src, key, keyIsDst) ==
    Called("Message", CSMessage(st, dstLen, src, key, keyIsDst))

CipherPartial(st, dstLen, src, key, keyIsDst) ==
    Called("Partial", CSPartial(st, dstLen, src, key, keyIsDst))

CipherRead(st, n) ==
    Called("Partial", CSPartial(st, n, <<>>, <<>>, FALSE))

CipherWrite(st, key) ==
    Called("Partial", CSPartial(st, 0, <<>>, key, FALSE))

EndMessage(st) ==
    Called("Message", CSMessage(st, 0, <<>>, <<>>, FALSE))

XORKeyStream(st, src) ==
    Called("Partial", CSPartial(st, Len(src), src, <<>>, FALSE))

\* Sum as a conventional digest would do it: the hash is squeezed from a
\* copy of the state and the cipher itself is left as it was.
SumOnCopy(st, dst) ==
    LET e == EndMessage(st)
        g == Grow(dst, HashSize)
        r == CipherMessage(e.st, HashSize, <<>>, <<>>, FALSE)
        arr == WriteAt(g.buf.arr, g.off, r.out)
    IN  [st |-> st, calls |-> e.calls \o r.calls,
         out |-> Out(SubSeq(arr, 1, g.buf.len)),
         dstArr |-> IF g.fresh THEN dst.arr ELSE arr]

Sum(st, dst) ==
    LET e == EndMessage(st)
        g == Grow(dst, HashSize)
        r == CipherMessage(e.st, HashSize, <<>>, <<>>, FALSE)
        arr == WriteAt(g.buf.arr, g.off, r.out)
    IN  [st |-> r.st, calls |-> e.calls \o r.calls,
         out |-> Out(SubSeq(arr, 1, g.buf.len)),
         dstArr |-> IF g.fresh THEN dst.arr ELSE arr]

Seal(st, dst, src) ==
    LET l == Len(src)
        m == KeySize
        g == Grow(dst, l + m)
        r1 == CipherMessage(st, l, src, <<>>, TRUE)
        r2 == CipherMessage(r1.st, m, <<>>, <<>>, FALSE)
        arr == WriteAt(g.buf.arr, g.off, r1.out \o r2.out)
    IN  [st |-> r2.st, calls |-> r1.calls \o r2.calls,
         out |-> Out(SubSeq(arr, 1, g.buf.len)),
         dstArr |-> IF g.fresh THEN dst.arr ELSE arr]

\* The dst of an in-place Open: src[:0].
InPlaceDst(src) == [arr |-> src, len |-> 0]

\* Open's length check placed after the ciphertext was absorbed.
OpenTooShortLate(st, dst, src) ==
    LET r == CipherMessage(st, 0, <<>>, src, FALSE)
    IN  [st |-> r.st, calls |-> r.calls, err |-> "short", out |-> NoOut,
         dstArr |-> dst.arr, srcAfter |-> src, fed |-> <<>>]

\* Open's early return on len(src) < KeySize().
OpenTooShort(st, dst, src) ==
    [st |-> st, calls |-> <<>>, err |-> "short", out |-> NoOut,
     dstArr |-> dst.arr, srcAfter |-> src, fed |-> <<>>]

\* What a call on the CipherState yields, with the key bytes it was fed.
Fed(r, fed) == [st |-> r.st, calls |-> r.calls, out |-> r.out, fed |-> fed]

\* Open's decryption without the temporary buffer: Message(msg, ctx, ctx)
\* with msg starting at ctx's first byte, so that the key bytes are read
\* from where the plaintext was just written.
OpenDecryptAliased(st, l, ctx, inPlace) ==
    Fed(CipherMessage(st, l, ctx, ctx, inPlace),
        Absorbed(st.h, 1, l, l, ctx, ctx, inPlace, <<>>))

\* Open's decryption: Message(msg, ctx, ctx) when msg does not start at
\* ctx's first byte, and Message(tmp, ctx, ctx) followed by copy(msg, tmp)
\* when it does.  Either way the bytes read as src and as key are ctx's.
OpenDecrypt(st, l, ctx, inPlace) ==
    Fed(CipherMessage(st, l, ctx, ctx, FALSE),
        Absorbed(st.h, 1, l, l, ctx, ctx, FALSE, <<>>))

\* Open(dst, src).  inPlace: dst is src[:0] (InPlaceDst), so the region Grow
\* returns starts at src's first byte and the decryption goes through a
\* temporary buffer.
\* The result tells the error, the returned buffer, the caller's view of the
\* backing arrays of dst and src afterwards, and the ciphertext the underlying
\* state was driven with.
Open(st, dst, src, inPlace) ==
    LET m == KeySize
        l == Len(src) - m
    IN  IF l < 0
        THEN OpenTooShort(st, dst, src)
        ELSE
        LET ctx == SubSeq(src, 1, l)
            mac == SubSeq(src, l + 1, Len(src))
            g == Grow(dst, l)
        IN  IF l = 0
            \* &msg[0] on the empty region: index out of range.
            THEN [st |-> st, calls |-> <<>>, err |-> "panic", out |-> NoOut,
                  dstArr |-> dst.arr, srcAfter |-> src, fed |-> <<>>]
            ELSE
            LET r1 == OpenDecrypt(st, l, ctx, inPlace)
                r2 == CipherMessage(r1.st, m, mac, <<>>, FALSE)
                arr == WriteAt(g.buf.arr, g.off, r1.out)
                srcMsg == IF inPlace THEN WriteAt(src, 0, r1.out) ELSE src
                srcEnd == WriteAt(srcMsg, l, r2.out)
                res == IF inPlace THEN SubSeq(srcEnd, 1, l)
                       ELSE SubSeq(arr, 1, g.buf.len)
                okMac == ConstantTimeAllEq(r2.out, 0) # 0
            IN  [st |-> r2.st, calls |-> r1.calls \o r2.calls,
                 err |-> IF okMac THEN "nil" ELSE "auth",
                 out |-> IF okMac THEN Out(res) ELSE NoOut,
                 dstArr |-> IF inPlace THEN srcEnd
                            ELSE IF g.fresh THEN dst.arr ELSE arr,
                 srcAfter |-> srcEnd, fed |-> r1.fed]

CipherClone(st) == CSClone(st)

-----------------------------------------------------------------------------
(* Inputs of the exploration.                                              *)

Ciphers == {1, 2}

\* States a keyed constructor may leave the cipher in.
KeyStates == {60, 167}

\* Plaintexts handed to Seal: the prefixes, up to MaxLen bytes, of two texts
\* that alternate the bytes 'h' and 0.
Text(first, n) == [i \in 1..n |-> IF (i + first) % 2 = 1 THEN 104 ELSE 0]

Plain == {Text(first, n) : first \in {0, 1}, n \in 0..MaxLen}

RECURSIVE Pow2(_)
Pow2(n) == IF n = 0 THEN 1 ELSE 2 * Pow2(n - 1)

\* buf with bit `bit` of its byte `pos` flipped.
FlipBit(buf, pos, bit) ==
    [buf EXCEPT ![pos] = BXor(buf[pos], Pow2(bit))]

\* The bits flipped in each byte: the lowest and the highest.
FlipBits == {0, 7}

Flips(buf) == {FlipBit(buf, pos, bit) : pos \in 1..Len(buf), bit \in FlipBits}

\* Destination slices a caller passes: nil, a full one, and one with spare
\* capacity behind its single byte.
FullDst == [arr |-> <<17>>, len |-> 1]

RoomyDst == [arr |-> <<17, 238, 238, 238, 238, 238>>, len |-> 1]

Dsts == {NilBuf, FullDst, RoomyDst}

\* Arguments of Message and Partial: dst length, src, key.
CallArgs ==
    { [dstLen |-> 0, src |-> <<>>, key |-> <<>>],
      [dstLen |-> 0, src |-> <<>>, key |-> <<104>>],
      [dstLen |-> 2, src |-> <<104>>, key |-> <<0, 104>>] }

\* Arguments of Seal: every plaintext into a nil dst, one into each other.
SealArgs ==
    {[dst |-> NilBuf, src |-> p] : p \in Plain} \cup
    {[dst |-> d, src |-> <<104>>] : d \in Dsts \ {NilBuf}}

\* Sealed buffers Open is handed that no Seal produced.
StrayBufs == {<<>>, <<7>>, <<7, 9>>, <<7, 9, 11>>}

-----------------------------------------------------------------------------
(* The state machine of the cipher wrapper.                                *)

NoSeal == [valid |-> FALSE, pre |-> [h |-> 0, open |-> FALSE],
           src |-> <<>>, out |-> <<>>]

Rec(op, c, pre, calls, dst, src, inPlace, out, err, dstArr, srcAfter) ==
    [op |-> op, c |-> c, pre |-> pre, calls |-> calls, dst |-> dst,
     src |-> src, inPlace |-> inPlace, out |-> out, err |-> err,
     dstArr |-> dstArr, srcAfter |-> srcAfter]

NoRec == Rec("none", 0, [h |-> 0, open |-> FALSE], <<>>, NilBuf, <<>>,
             FALSE, NoOut, "nil", <<>>, <<>>)

Summary(r) == [op |-> r.op, c |-> r.c, dst |-> r.dst, out |-> r.out]

\* Two ciphers keyed alike: a cipher in the state k and its clone.
CipherInit(k) ==
    /\ cs = [c \in Ciphers |-> [h |-> k, open |-> FALSE]]
    /\ last = NoRec
    /\ prev = Summary(NoRec)
    /\ sealed = NoSeal
    /\ steps = 0

\* The bookkeeping every call shares.
Step(c, st, rec) ==
    /\ steps < MaxSteps
    /\ steps' = steps + 1
    /\ cs' = [cs EXCEPT ![c] = st]
    /\ prev' = Summary(last)
    /\ last' = rec
    /\ UNCHANGED curveVars

DoMessage(c, a) ==
    LET r == CipherMessage(cs[c], a.dstLen, a.src, a.key, FALSE)
    IN  /\ Step(c, r.st, Rec("Message", c, cs[c], r.calls, NilBuf, a.src,
                             FALSE, Out(r.out), "nil", <<>>, a.src))
        /\ UNCHANGED sealed

DoPartial(c, a) ==
    LET r == CipherPartial(cs[c], a.dstLen, a.src, a.key, FALSE)
    IN  /\ Step(c, r.st, Rec("Partial", c, cs[c], r.calls, NilBuf, a.src,
                             FALSE, Out(r.out), "nil", <<>>, a.src))
        /\ UNCHANGED sealed

DoRead(c, n) ==
    LET r == CipherRead(cs[c], n)
    IN  /\ Step(c, r.st, Rec("Read", c, cs[c], r.calls, NilBuf, <<>>,
                             FALSE, Out(r.out), "nil", <<>>, <<>>))
        /\ UNCHANGED sealed

DoWrite(c, key) ==
    LET r == CipherWrite(cs[c], key)
    IN  /\ Step(c, r.st, Rec("Write", c, cs[c], r.calls, NilBuf, key,
                             FALSE, Out(r.out), "nil", <<>>, key))
        /\ UNCHANGED sealed

DoEndMessage(c) ==
    LET r == EndMessage(cs[c])
    IN  /\ Step(c, r.st, Rec("EndMessage", c, cs[c], r.calls, NilBuf, <<>>,
                             FALSE, Out(r.out), "nil", <<>>, <<>>))
        /\ UNCHANGED sealed

DoXORKeyStream(c, src) ==
    LET r == XORKeyStream(cs[c], src)
    IN  /\ Step(c, r.st, Rec("XORKeyStream", c, cs[c], r.calls, NilBuf, src,
                             FALSE, Out(r.out), "nil", <<>>, src))
        /\ UNCHANGED sealed

DoSum(c, dst) ==
    LET r == Sum(cs[c], dst)
    IN  /\ Step(c, r.st, Rec("Sum", c, cs[c], r.calls, dst, <<>>,
                             FALSE, r.out, "nil", r.dstArr, <<>>))
        /\ UNCHANGED sealed

DoSeal(c, dst, src) ==
    LET r == Seal(cs[c], dst, src)
    IN  /\ Step(c, r.st, Rec("Seal", c, cs[c], r.calls, dst, src,
                             FALSE, r.out, "nil", r.dstArr, src))
        /\ sealed' = IF dst = NilBuf
                     THEN [valid |-> TRUE, pre |-> cs[c], src |-> src,
                           out |-> r.out.bytes]
                     ELSE sealed

\* What Open may be handed: the last sealed buffer, that buffer with one bit
\* flipped, or a buffer no Seal produced.
OpenInputs ==
    StrayBufs \cup
    (IF sealed.valid THEN {sealed.out} \cup Flips(sealed.out) ELSE {})

DoOpen(c, dst, src, inPlace) ==
    LET r == Open(cs[c], dst, src, inPlace)
    IN  /\ Step(c, r.st, Rec("Open", c, cs[c], r.calls, dst, src,
                             inPlace, r.out, r.err, r.dstArr, r.srcAfter))
        /\ UNCHANGED sealed

DoClone(c, d) ==
    /\ c # d
    /\ Step(d, CipherClone(cs[c]), Rec("Clone", c, cs[c], <<>>, NilBuf, <<>>,
                                       FALSE, NoOut, "nil", <<>>, <<>>))
    /\ UNCHANGED sealed

Next ==
    \/ \E c \in Ciphers, a \in CallArgs : DoMessage(c, a)
    \/ \E c \in Ciphers, a \in CallArgs : DoPartial(c, a)
    \/ \E c \in Ciphers, n \in {0, 2} : DoRead(c, n)
    \/ \E c \in Ciphers, key \in {<<>>, <<104>>} : DoWrite(c, key)
    \/ \E c \in Ciphers : DoEndMessage(c)
    \/ \E c \in Ciphers, src \in {<<>>, <<104>>} : DoXORKeyStream(c, src)
    \/ \E c \in Ciphers, dst \in Dsts : DoSum(c, dst)
    \/ \E c \in Ciphers, a \in SealArgs : DoSeal(c, a.dst, a.src)
    \/ \E c \in Ciphers, dst \in {NilBuf, RoomyDst}, src \in OpenInputs :
          DoOpen(c, dst, src, FALSE)
    \/ \E c \in Ciphers, src \in OpenInputs :
          DoOpen(c, InPlaceDst(src), src, TRUE)
    \/ \E c \in Ciphers, d \in Ciphers : DoClone(c, d)

-----------------------------------------------------------------------------
(* Properties of the cipher wrapper.                                       *)

\* The last call was Open, on a cipher in the state the sealing cipher had
\* before the last Seal(nil, src).
OpensAsSealer == last.op = "Open" /\ sealed.valid /\ last.pre = sealed.pre

\* The caller's backing array of Open's dst before the call.
DstArrBefore == last.dst.arr

\* Where Open's plaintext region starts in that array, and its length.
MsgOff == last.dst.len

MsgLen == Len(last.src) - KeySize

\* C1: Seal/Open round trip.  Open(nil, Seal(nil, src)), on a cipher in the
\* state the sealing cipher had before Seal, returns a nil error and exactly
\* src, for every src, the empty one included.
C1_RoundTrip ==
    (OpensAsSealer /\ last.src = sealed.out /\ last.dst = NilBuf
        /\ ~last.inPlace)
    => (last.err = "nil" /\ ~last.out.isNil /\ last.out.bytes = sealed.src)

\* The round trip of every sealed message of at least one byte.
RoundTripNonEmpty ==
    (OpensAsSealer /\ last.src = sealed.out /\ Len(sealed.src) > 0)
    => (last.err = "nil" /\ ~last.out.isNil
        /\ last.out.bytes = Bytes(last.dst) \o sealed.src)

\* C2: tamper detection.  Open on Seal(nil, src) with one bit flipped, on a
\* cipher in the sealing cipher's state, returns an authentication error and
\* no plaintext.
C2_TamperDetected ==
    (OpensAsSealer /\ last.src \in Flips(sealed.out))
    => (last.err = "auth" /\ last.out.isNil)

\* Tampering with a sealed message of at least one byte is detected.
TamperDetectedNonEmpty ==
    (OpensAsSealer /\ last.src \in Flips(sealed.out) /\ Len(sealed.src) > 0)
    => (last.err = "auth" /\ last.out.isNil)

\* C3: when the MAC check fails Open returns nil and an authentication
\* error, and nothing of the decrypted message is left where the caller can
\* read it: the plaintext region of the dst backing array is as it was.
C3_OutputDiscarded ==
    (last.op = "Open" /\ last.err = "auth")
    => /\ last.out.isNil
       /\ \A i \in 1..Len(DstArrBefore) :
             (i > MsgOff /\ i <= MsgOff + MsgLen)
             => last.dstArr[i] = DstArrBefore[i]

\* C4: Open on fewer than KeySize() bytes fails with the too-short error
\* and a nil buffer, makes no call on the underlying state, which stays as it
\* was, and writes neither src nor dst.
C4_ShortRejected ==
    (last.op = "Open" /\ Len(last.src) < KeySize)
    => /\ last.err = "short"
       /\ last.out.isNil
       /\ last.calls = <<>>
       /\ cs[last.c] = last.pre
       /\ last.srcAfter = last.src
       /\ last.dstArr = DstArrBefore

\* A too-short Open on a cipher with a message in progress, handed a dst with
\* spare capacity.
C4_Witness ==
    /\ last.op = "Open"
    /\ Len(last.src) = 1
    /\ last.err = "short"
    /\ last.pre.open
    /\ cs[last.c].open
    /\ last.dst = RoomyDst

Streaming == {"Partial", "Read", "Write", "XORKeyStream"}

Closing == {"Message", "EndMessage", "Sum"}

\* C5: the message-boundary state machine.  The cipher last operated on is
\* InProgress exactly when that operation was Partial, Read, Write or
\* XORKeyStream, and Idle after Message, EndMessage or Sum; Seal, and Open on
\* at least KeySize() bytes, from Idle end Idle and make exactly two Message
\* calls and no Partial call.
C5_BoundaryMachine ==
    /\ (last.op \notin {"none", "Clone"})
          => (cs[last.c].open <=> last.op \in Streaming)
    /\ (last.op \in Closing) => ~cs[last.c].open
    /\ ((last.op = "Seal" \/ (last.op = "Open" /\ Len(last.src) >= KeySize))
          /\ ~last.pre.open)
          => (~cs[last.c].open /\ last.calls = <<"Message", "Message">>)

\* The state machine over the calls that reach the underlying state.
BoundaryMachineOfCalls ==
    /\ (last.op \in Streaming) => (cs[last.c].open /\ last.calls = <<"Partial">>)
    /\ (last.op \in Closing \cup {"Seal"}) => ~cs[last.c].open
    /\ (last.op = "Seal") => last.calls = <<"Message", "Message">>
    /\ (last.op = "Open" /\ Len(last.src) > KeySize)
          => (~cs[last.c].open /\ last.calls = <<"Message", "Message">>)
    /\ (last.op = "Open" /\ Len(last.src) <= KeySize)
          => (cs[last.c] = last.pre /\ last.calls = <<>>)

\* The bytes a Sum squeezes from the state st: the open message is closed,
\* then HashSize() bytes are drawn in one message.
FreshHash(st) ==
    CSMessage(CSMessage(st, 0, <<>>, <<>>, FALSE).st,
              HashSize, <<>>, <<>>, FALSE).out

\* C6: Sum changes the cipher.  Sum(dst) closes any open message and returns
\* dst's bytes followed by HashSize() fresh bytes; two Sum(nil) in a row on one
\* cipher return different strings of HashSize() bytes.
C6_SumMutates ==
    /\ (last.op = "Sum")
          => /\ ~last.out.isNil
             /\ last.out.bytes = Bytes(last.dst) \o FreshHash(last.pre)
             /\ Len(last.out.bytes) = last.dst.len + HashSize
             /\ last.calls = <<"Message", "Message">>
             /\ ~cs[last.c].open
    /\ (last.op = "Sum" /\ prev.op = "Sum" /\ last.c = prev.c
          /\ last.dst = NilBuf /\ prev.dst = NilBuf)
          => /\ last.out.bytes # prev.out.bytes
             /\ Len(last.out.bytes) = HashSize
             /\ Len(prev.out.bytes) = HashSize

\* Two Sum(nil) in a row on one cipher.
C6_Witness ==
    /\ last.op = "Sum" /\ prev.op = "Sum" /\ last.c = prev.c
    /\ last.dst = NilBuf /\ prev.dst = NilBuf
    /\ Len(last.out.bytes) = HashSize

-----------------------------------------------------------------------------
(* The curve: y^2 = x^3 - 3x + B over GF(P), a group of prime order N, in   *)
(* the form of the NIST curves and small enough to enumerate.  P has 24     *)
(* bits and is 3 mod 4.                                                      *)

P == 8388619

B == 1

N == 8385337

BitSize == 24

\* The generator's coordinates.
Gx == 2097157

Gy == 7340044

\* big.Int arithmetic modulo P within 31 bits.  P is 2^23 + 11, so 2^23 is
\* -11 and 2^24 is -22 modulo P: the product of two reduced numbers, split
\* in 12-bit limbs as hi * 2^24 + mid * 2^12 + lo, folds into one sum.
MulFold(hi, mid, lo) ==
    (lo + (mid % 2048) * 4096 + 12 * P - 11 * (mid \div 2048) - 22 * hi) % P

MulLimbs(a1, a0, b1, b0) == MulFold(a1 * b1, a1 * b0 + a0 * b1, a0 * b0)

\* a * b mod P
MulMod(a, b) ==
    MulLimbs((a % P) \div 4096, (a % P) % 4096,
             (b % P) \div 4096, (b % P) % 4096)

AddMod(a, b) == ((a % P) + (b % P)) % P

SubMod(a, b) == ((a % P) + P - (b % P)) % P

\* The highest bit a coordinate or a scalar can have.
TopBit == Pow2(BitSize - 1)

\* Bit d (a power of two) of e.
BitOf(e, d) == (e \div d) % 2

SqMul(h, a, bit) == IF bit = 1 THEN MulMod(MulMod(h, h), a) ELSE MulMod(h, h)

\* Square-and-multiply over the bits of e, from bit d down.
RECURSIVE PowFrom(_, _, _, _)
PowFrom(acc, a, e, d) ==
    IF d = 0 \/ acc = 0 THEN acc
    ELSE PowFrom(SqMul(acc, a, BitOf(e, d)), a, e, d \div 2)

PowMod(a, e) == PowFrom(1, a, e, TopBit)

\* The extended Euclidean algorithm on <<r0, r1, t0, t1>>, where each r is
\* t * a modulo P.
RECURSIVE Euclid(_)
Euclid(s) ==
    IF s[2] = 0 THEN s[3]
    ELSE Euclid(<<s[2], s[1] % s[2], s[4], s[3] - (s[1] \div s[2]) * s[4]>>)

\* big.Int.ModInverse(a, P); 0 for a = 0.
Inv(a) == (Euclid(<<P, a % P, 0, 1>>) + P) % P

\* curveOps.sqrt for a prime that is 3 mod 4: a square root of c when c has
\* one, and a number whose square is not c otherwise.
sqrt(c) == PowMod(c, (P + 1) \div 4)

\* x^3 - 3x + B mod P
CurveRhs(x) == AddMod(SubMod(MulMod(MulMod(x, x), x), MulMod(3, x)), B)

RECURSIVE BitLen(_)
BitLen(n) == IF n = 0 THEN 0 ELSE 1 + BitLen(n \div 2)

-----------------------------------------------------------------------------
(* crypto/elliptic on this curve.  A point is its affine pair; (0, 0)      *)
(* stands for the point at infinity.  The library the build links either   *)
(* computes on whatever coordinates it is handed (lenient) or, as later    *)
(* releases do, refuses coordinates that are not below P or not on the     *)
(* curve (strict): Unmarshal returns nothing for them and Marshal, Add and *)
(* ScalarMult panic.                                                        *)

Inf == [x |-> 0, y |-> 0]

IsInf(a) == a.x = 0 /\ a.y = 0

\* Curve.IsOnCurve(x, y)
IsOnCurve(s, a) ==
    /\ s => (a.x < P /\ a.y < P)
    /\ MulMod(a.y, a.y) = CurveRhs(a.x)

\* The points the strict library operates on.
Operable(s, a) == ~s \/ IsInf(a) \/ IsOnCurve(s, a)

Panicked == [ok |-> FALSE, pt |-> Inf]

Returned(a) == [ok |-> TRUE, pt |-> a]

Reduced(a) == [x |-> a.x % P, y |-> a.y % P]

Chord(a, b) == MulMod(SubMod(b.y, a.y), Inv(SubMod(b.x, a.x)))

Tangent(a) ==
    MulMod(SubMod(MulMod(3, MulMod(a.x, a.x)), 3), Inv(AddMod(a.y, a.y)))

ThirdX(a, b, l) == SubMod(SubMod(MulMod(l, l), a.x), b.x)

ThirdPoint(a, l, x3) ==
    [x |-> x3, y |-> SubMod(MulMod(l, SubMod(a.x, x3)), a.y)]

OnLine(a, b, l) == ThirdPoint(a, l, ThirdX(a, b, l))

\* The sum of two finite points with reduced coordinates.
AddReduced(a, b) ==
    IF a.x # b.x THEN OnLine(a, b, Chord(a, b))
    ELSE IF a.y = b.y /\ a.y # 0 THEN OnLine(a, a, Tangent(a))
    ELSE Inf

\* The group law as CurveParams computes it: results are reduced.
AddPoints(a, b) ==
    IF IsInf(a) THEN Reduced(b)
    ELSE IF IsInf(b) THEN Reduced(a)
    ELSE AddReduced(Reduced(a), Reduced(b))

AddBit(acc, b, bit) == IF bit = 1 THEN AddPoints(b, acc) ELSE acc

\* Double-and-add over the bits of k, from bit d down.
RECURSIVE MultFrom(_, _, _, _)
MultFrom(acc, b, k, d) ==
    IF d = 0 THEN acc
    ELSE IF IsInf(acc)
    THEN MultFrom(AddBit(Inf, b, BitOf(k, d)), b, k, d \div 2)
    ELSE MultFrom(AddBit(AddPoints(acc, acc), b, BitOf(k, d)), b, k, d \div 2)

MultPoints(b, k) == MultFrom(Inf, b, k, TopBit)

\* Curve.Add(x1, y1, x2, y2)
EllipticAdd(s, a, b) ==
    IF Operable(s, a) /\ Operable(s, b) THEN Returned(AddPoints(a, b))
    ELSE Panicked

\* Curve.ScalarMult(Bx, By, k)
ScalarMult(s, b, k) ==
    IF Operable(s, b) THEN Returned(MultPoints(b, k)) ELSE Panicked

\* Curve.ScalarBaseMult(k)
ScalarBaseMult(s, k) == ScalarMult(s, [x |-> Gx, y |-> Gy], k)

\* The n big-endian bytes of v.
RECURSIVE ToBytes(_, _)
ToBytes(v, n) ==
    IF n = 0 THEN <<>> ELSE Append(ToBytes(v \div 256, n - 1), v % 256)

\* big.Int.SetBytes
RECURSIVE SetBytes(_)
SetBytes(bs) ==
    IF bs = <<>> THEN 0
    ELSE 256 * SetBytes(SubSeq(bs, 1, Len(bs) - 1)) + bs[Len(bs)]

\* Number of bytes required to store one coordinate on this curve.
coordLen == (BitSize + 7) \div 8

\* Number of bytes in the encoding of a point.
PointLen == 1 + 2 * coordLen

\* elliptic.Marshal(curve, x, y): the uncompressed form, header byte 4.
EllipticMarshal(s, a) ==
    IF Operable(s, a)
    THEN [ok |-> TRUE,
          bytes |-> <<4>> \o ToBytes(a.x, coordLen) \o ToBytes(a.y, coordLen)]
    ELSE [ok |-> FALSE, bytes |-> <<>>]

NoPoint == [isNil |-> TRUE, pt |-> Inf]

Parsed(a) == [isNil |-> FALSE, pt |-> a]

\* The coordinates an encoding of the right length carries.
Carried(buf) ==
    [x |-> SetBytes(SubSeq(buf, 2, 1 + coordLen)),
     y |-> SetBytes(SubSeq(buf, 2 + coordLen, PointLen))]

\* elliptic.Unmarshal(curve, data): nil coordinates on a wrong length or a
\* wrong header; the strict library also returns nil for coordinates that are
\* not below P or not on the curve.
EllipticUnmarshal(s, buf) ==
    IF Len(buf) # PointLen \/ buf[1] # 4 THEN NoPoint
    ELSE IF s /\ ~IsOnCurve(s, Carried(buf)) THEN NoPoint
    ELSE Parsed(Carried(buf))

-----------------------------------------------------------------------------
(* curvePoint, on the coordinate values.                                   *)

\* Equal's normalisation of one point.
Normalized(a) == Reduced(a)

\* Equal(p2): both points are normalised, then compared.
Equal(a, b) == Normalized(a) = Normalized(b)

\* Valid()
Valid(s, a) == IsOnCurve(s, a) \/ IsInf(a)

\* The y coordinate genPoint keeps: the root, or P less the root when the
\* random byte has its high bit set.
SignedRoot(y, sign) == IF sign >= 128 THEN P - y ELSE y

GenResult(x, y2, y) == [ok |-> MulMod(y, y) = y2, pt |-> [x |-> x, y |-> y]]

GenRoot(x, y2, sign) == GenResult(x, y2, SignedRoot(sqrt(y2), sign))

\* genPoint(x, rand): the point of the chosen x coordinate, if there is one.
\* sign is the byte it draws from rand.
genPoint(x, sign) == GenRoot(x, CurveRhs(x), sign)

PickLen == (BitLen(P) - 8 - 8) \div 8

Min2(a, b) == IF a <= b THEN a ELSE b

\* The candidate bytes with the data written but no length tag.
CandidateUntagged(data, dl, bits) ==
    IF data.isNil THEN bits
    ELSE [i \in 1..coordLen |->
            IF i < coordLen /\ i >= coordLen - dl
            THEN data.bytes[i - (coordLen - dl) + 1]
            ELSE bits[i]]

\* The candidate bytes of one try: random bits, over which a non-nil data
\* writes its length and its first dl bytes.
Candidate(data, dl, bits) ==
    IF data.isNil THEN bits
    ELSE [i \in 1..coordLen |->
            IF i = coordLen THEN dl
            ELSE IF i >= coordLen - dl THEN data.bytes[i - (coordLen - dl) + 1]
            ELSE bits[i]]

TryOf(data, dl, draw) ==
    genPoint(SetBytes(Candidate(data, dl, draw.bits)), draw.sign)

\* Pick's loop over the tries the random stream feeds, from try i on.
RECURSIVE PickFrom(_, _, _, _)
PickTry(g, data, dl, stream, i) ==
    IF g.ok THEN [ok |-> TRUE, pt |-> g.pt, tries |-> i]
    ELSE PickFrom(data, dl, stream, i + 1)

PickFrom(data, dl, stream, i) ==
    IF i > Len(stream) THEN [ok |-> FALSE, pt |-> Inf, tries |-> i - 1]
    ELSE PickTry(TryOf(data, dl, stream[i]), data, dl, stream, i)

\* Pick(data, rand): ok tells whether a try succeeded within the stream.
Pick(data, stream) ==
    PickFrom(data, Min2(PickLen, Len(data.bytes)), stream, 1)

\* What Pick returns next to the point: data[dl:].
Remainder(data) ==
    IF data.isNil THEN NoOut
    ELSE Out(SubSeq(data.bytes, Min2(PickLen, Len(data.bytes)) + 1,
                    Len(data.bytes)))

DataOf(b) ==
    IF b[coordLen] > PickLen
    THEN [err |-> "length", out |-> NoOut]
    ELSE [err |-> "nil",
          out |-> Out(SubSeq(b, coordLen - b[coordLen], coordLen - 1))]

\* Data(): the embedded bytes of the x coordinate x.
Data(x) == DataOf(ToBytes(x, coordLen))

\* Add(a, b)
Add(s, a, b) == EllipticAdd(s, a, b)

\* Mul(b, s) with a point b, for the scalar k.
Mul(s, b, k) == ScalarMult(s, b, k)

\* Mul(nil, s)
MulBase(s, k) == ScalarBaseMult(s, k)

\* The scalar Neg multiplies by: One() negated modulo the order.
MinusOne == N - 1

\* Neg(a)
Neg(s, a) == Mul(s, a, MinusOne)

SubOf(s, a, n) == IF n.ok THEN EllipticAdd(s, a, n.pt) ELSE Panicked

\* Sub(a, b)
Sub(s, a, b) == SubOf(s, a, Neg(s, b))

\* MarshalBinary()
MarshalBinary(s, a) == EllipticMarshal(s, a)

BodyIsZero(buf) == \A i \in 2..Len(buf) : buf[i] = 0

\* The parse branch of UnmarshalBinary: the coordinates are assigned before
\* they are checked.
UnmarshalParsed(s, u) ==
    IF u.isNil THEN [err |-> "invalid", path |-> "parse", set |-> "nil", pt |-> Inf]
    ELSE IF ~Valid(s, u.pt)
    THEN [err |-> "invalid", path |-> "parse", set |-> "pt", pt |-> u.pt]
    ELSE [err |-> "nil", path |-> "parse", set |-> "pt", pt |-> u.pt]

\* UnmarshalBinary(buf): the error, the branch taken, and what was assigned
\* to the receiver's coordinates (nothing, nil, or a point).  buf[1:] of an
\* empty buf is out of range.
UnmarshalBinary(s, buf) ==
    IF buf = <<>>
    THEN [err |-> "panic", path |-> "none", set |-> "none", pt |-> Inf]
    ELSE IF BodyIsZero(buf)
    THEN [err |-> "nil", path |-> "zero", set |-> "pt", pt |-> Inf]
    ELSE UnmarshalParsed(s, EllipticUnmarshal(s, buf))

\* big.Int.String(): the decimal digits of a value that is not negative.
DigitChar(d) == <<"0", "1", "2", "3", "4", "5", "6", "7", "8", "9">>[d + 1]

RECURSIVE Decimal(_, _)
Decimal(n, acc) ==
    IF n < 10 THEN <<DigitChar(n)>> \o acc
    ELSE Decimal(n \div 10, <<DigitChar(n % 10)>> \o acc)

\* p.String(): "(" + x + "," + y + ")"
String(a) ==
    <<"(">> \o Decimal(a.x, <<>>) \o <<",">> \o Decimal(a.y, <<>>) \o <<")">>

-----------------------------------------------------------------------------
(* The state machine of the curve points.  A coordinate is a *big.Int: a   *)
(* reference to a cell of the heap, or nil.  The curve's Gx and Gy have    *)
(* cells of their own.                                                      *)

\* Number of point calls explored from the constructed points.
MaxOps == 3

Points == {1, 2}

NilRef == 0

GxCell == 1

GyCell == 2

Cells == 1..(2 + 2 * Cardinality(Points))

\* The coordinates of point p hold big.Ints.
Assigned(p) == pts[p].x # NilRef

\* The coordinate values of point p.
ValueIn(h, ps, p) == [x |-> h[ps[p].x], y |-> h[ps[p].y]]

Value(p) == ValueIn(heap, pts, p)

Refs(ps, among) == UNION {{ps[q].x, ps[q].y} : q \in among}

\* The cells a new big.Int of point p may take: those no other point and no
\* curve parameter refers to.
Free(p) == Cells \ ({GxCell, GyCell} \cup Refs(pts, Points \ {p}))

Lowest(S) == CHOOSE m \in S : \A n \in S : m <= n

NewX(p) == Lowest(Free(p))

NewY(p) == Lowest(Free(p) \ {NewX(p)})

\* Cells nothing refers to any more are collected.
Sweep(h, ps) ==
    [c \in Cells |->
        IF c \in {GxCell, GyCell} \cup Refs(ps, Points) THEN h[c] ELSE 0]

\* p.x, p.y = new big.Ints holding a.  grp tells whether the point is one
\* the group's operations produced.
Assign(p, a, grp) ==
    /\ pts' = [pts EXCEPT ![p] = [x |-> NewX(p), y |-> NewY(p), grp |-> grp]]
    /\ heap' = Sweep([heap EXCEPT ![NewX(p)] = a.x, ![NewY(p)] = a.y], pts')

\* p.x, p.y = the big.Ints rx, ry themselves.
Share(p, rx, ry, grp) ==
    /\ pts' = [pts EXCEPT ![p] = [x |-> rx, y |-> ry, grp |-> grp]]
    /\ heap' = Sweep(heap, pts')

\* What a call leaves to look at.
NoCall ==
    [op |-> "none", p |-> 0, a |-> 0, b |-> 0, data |-> NoOut, buf |-> <<>>,
     err |-> "nil", ret |-> FALSE, out |-> NoOut, rem |-> NoOut,
     path |-> "none", used |-> <<>>, grp |-> FALSE]

Brief(r) == [op |-> r.op, p |-> r.p, data |-> r.data, err |-> r.err]

NoWire == [valid |-> FALSE, bytes |-> <<>>, pt |-> Inf, grp |-> FALSE]

\* The points as constructed: point 1 is Point().Base(), point 2 is
\* Point().Null().  s tells which crypto/elliptic the build links.
CurveConstructed(s) ==
    /\ strict = s
    /\ heap = [c \in Cells |->
                 IF c = GxCell THEN Gx ELSE IF c = GyCell THEN Gy ELSE 0]
    /\ pts = [p \in Points |->
                IF p = 1 THEN [x |-> GxCell, y |-> GyCell, grp |-> TRUE]
                ELSE [x |-> 3, y |-> 4, grp |-> TRUE]]
    /\ done = NoCall
    /\ before = Brief(NoCall)
    /\ wire = NoWire
    /\ ops = 0

\* The bookkeeping every point call shares.
Call(r) ==
    /\ ops < MaxOps
    /\ ops' = ops + 1
    /\ before' = Brief(done)
    /\ done' = r
    /\ UNCHANGED <<strict, cipherVars>>

Same == UNCHANGED <<pts, heap>>

\* What a call that hands its result to the library leaves: the point
\* assigned, or a panic and the receiver as it was.
Assigning(p, r, grp) == IF r.ok THEN Assign(p, r.pt, grp) ELSE Same

ErrOf(r) == IF r.ok THEN "nil" ELSE "panic"

CallNull(p) ==
    /\ Call([NoCall EXCEPT !.op = "Null", !.p = p])
    /\ Assign(p, Inf, TRUE)
    /\ UNCHANGED wire

CallBase(p) ==
    /\ Call([NoCall EXCEPT !.op = "Base", !.p = p])
    /\ Share(p, GxCell, GyCell, TRUE)
    /\ UNCHANGED wire

\* Equal writes the normalised coordinates back into the big.Ints of both
\* points.
CallEqual(p, q) ==
    /\ Assigned(p) /\ Assigned(q)
    /\ Call([NoCall EXCEPT !.op = "Equal", !.p = p, !.a = q,
                           !.ret = Equal(Value(p), Value(q)),
                           !.used = <<Normalized(Value(p)).x,
                                      Normalized(Value(p)).y,
                                      Normalized(Value(q)).x,
                                      Normalized(Value(q)).y>>])
    /\ heap' = [c \in Cells |->
                  IF c \in Refs(pts, {p, q}) THEN heap[c] % P ELSE heap[c]]
    /\ UNCHANGED <<pts, wire>>

\* Pick returns once a try r has given a point.
Picked(p, data, r) ==
    /\ r.ok
    /\ Call([NoCall EXCEPT !.op = "Pick", !.p = p, !.data = data,
                           !.rem = Remainder(data)])
    /\ Assign(p, r.pt, TRUE)
    /\ UNCHANGED wire

CallPick(p, data, stream) == Picked(p, data, Pick(data, stream))

CallData(p) ==
    /\ Assigned(p)
    /\ Call([NoCall EXCEPT !.op = "Data", !.p = p,
                           !.err = Data(Value(p).x).err,
                           !.out = Data(Value(p).x).out])
    /\ Same
    /\ UNCHANGED wire

\* A call whose result r comes from the library.
Arith(op, p, a, b, r, grp) ==
    /\ Call([NoCall EXCEPT !.op = op, !.p = p, !.a = a, !.b = b,
                           !.err = ErrOf(r)])
    /\ Assigning(p, r, grp)
    /\ UNCHANGED wire

CallAdd(p, a, b) ==
    /\ Assigned(a) /\ Assigned(b)
    /\ Arith("Add", p, a, b, Add(strict, Value(a), Value(b)),
             pts[a].grp /\ pts[b].grp)

CallSub(p, a, b) ==
    /\ Assigned(a) /\ Assigned(b)
    /\ Arith("Sub", p, a, b, Sub(strict, Value(a), Value(b)),
             pts[a].grp /\ pts[b].grp)

CallNeg(p, a) ==
    /\ Assigned(a)
    /\ Arith("Neg", p, a, 0, Neg(strict, Value(a)), pts[a].grp)

CallMul(p, b, k) ==
    /\ Assigned(b)
    /\ Arith("Mul", p, b, 0, Mul(strict, Value(b), k), pts[b].grp)

CallMulBase(p, k) ==
    Arith("Mul", p, 0, 0, MulBase(strict, k), TRUE)

\* A returned encoding is remembered with the point it encodes.
Marshalled(p, m) ==
    /\ Call([NoCall EXCEPT !.op = "MarshalBinary", !.p = p,
                           !.err = ErrOf(m), !.out = Out(m.bytes),
                           !.used = IF m.ok THEN <<Value(p).x, Value(p).y>>
                                    ELSE <<>>,
                           !.grp = pts[p].grp])
    /\ wire' = IF m.ok
               THEN [valid |-> TRUE, bytes |-> m.bytes, pt |-> Value(p),
                     grp |-> pts[p].grp]
               ELSE wire
    /\ Same

CallMarshalBinary(p) ==
    /\ Assigned(p)
    /\ Marshalled(p, MarshalBinary(strict, Value(p)))

\* The decoded point counts as one of the group's when the buffer is the
\* encoding MarshalBinary returned for one.
Unmarshalled(p, buf, u) ==
    /\ Call([NoCall EXCEPT !.op = "UnmarshalBinary", !.p = p, !.buf = buf,
                           !.err = u.err, !.path = u.path])
    /\ IF u.set = "pt"
       THEN Assign(p, u.pt, u.err = "nil" /\ wire.valid /\ wire.grp
                              /\ buf = wire.bytes)
       ELSE IF u.set = "nil" THEN Share(p, NilRef, NilRef, FALSE)
       ELSE Same
    /\ UNCHANGED wire

CallUnmarshalBinary(p, buf) == Unmarshalled(p, buf, UnmarshalBinary(strict, buf))

CallSet(p, q) ==
    /\ p # q
    /\ Call([NoCall EXCEPT !.op = "Set", !.p = p, !.a = q])
    /\ Share(p, pts[q].x, pts[q].y, pts[q].grp)
    /\ UNCHANGED wire

\* q = p.Clone(): the new point takes the place of q.
CallClone(p, q) ==
    /\ p # q
    /\ Call([NoCall EXCEPT !.op = "Clone", !.p = p, !.a = q])
    /\ Share(q, pts[p].x, pts[p].y, pts[p].grp)
    /\ UNCHANGED wire

-----------------------------------------------------------------------------
(* Inputs of the point calls.                                              *)

\* What the random stream yields for one try of Pick: the bits of the
\* candidate and the byte that picks the sign.
DrawNoRoot == [bits |-> <<1, 0, 65>>, sign |-> 0]

DrawHigh == [bits |-> <<255, 0, 65>>, sign |-> 128]

DrawLow == [bits |-> <<3, 0, 1>>, sign |-> 0]

\* Random streams: one whose first candidate has no root for any payload and
\* whose second has x at or above P, and one whose first has x below P.
Streams == {<<DrawNoRoot, DrawHigh>>, <<DrawLow>>}

\* Payloads of Pick: nil, empty, and one byte.
Payloads == {NoOut, Out(<<>>), Out(<<65>>)}

Scalars == {3}

G == [x |-> Gx, y |-> Gy]

\* Buffers no MarshalBinary returned: empty, a lone header, the identity's
\* body under a wrong header, the generator under a wrong header, a pair off
\* the curve, the generator with a byte too many, and the generator with P
\* added to its x.
Malformed ==
    { <<>>,
      <<4>>,
      <<5>> \o ToBytes(0, coordLen) \o ToBytes(0, coordLen),
      <<5>> \o ToBytes(Gx, coordLen) \o ToBytes(Gy, coordLen),
      <<4>> \o ToBytes(1, coordLen) \o ToBytes(1, coordLen),
      <<4>> \o ToBytes(Gx, coordLen) \o ToBytes(Gy, coordLen) \o <<0>>,
      <<4>> \o ToBytes(Gx + P, coordLen) \o ToBytes(Gy, coordLen) }

\* The encoding MarshalBinary returned last, when there is one.
Sent == IF wire.valid THEN {wire.bytes} ELSE {}

CurveNext ==
    \/ \E p \in Points : CallNull(p)
    \/ \E p \in Points : CallBase(p)
    \/ \E p \in Points, q \in Points : CallEqual(p, q)
    \/ \E p \in Points, d \in Payloads, r \in Streams : CallPick(p, d, r)
    \/ \E p \in Points : CallData(p)
    \/ \E p \in Points, b \in Points : CallAdd(p, 1, b)
    \/ \E a \in Points : CallSub(2, a, 2)
    \/ \E a \in Points : CallNeg(1, a)
    \/ \E p \in Points, b \in Points, k \in Scalars : CallMul(p, b, k)
    \/ \E p \in Points, k \in Scalars : CallMulBase(p, k)
    \/ \E p \in Points : CallMarshalBinary(p)
    \/ \E p \in Points, buf \in Sent : CallUnmarshalBinary(p, buf)
    \/ \E buf \in Malformed : CallUnmarshalBinary(2, buf)
    \/ \E p \in Points, q \in Points : CallSet(p, q)
    \/ \E p \in Points, q \in Points : CallClone(p, q)

-----------------------------------------------------------------------------
(* The two specifications.                                                  *)

Init == (\E k \in KeyStates : CipherInit(k)) /\ CurveConstructed(FALSE)

Spec == Init /\ [][Next]_vars

CurveInit == CipherInit(60) /\ \E s \in BOOLEAN : CurveConstructed(s)

CurveSpec == CurveInit /\ [][CurveNext]_vars

-----------------------------------------------------------------------------
(* Properties of the curve points.                                         *)

\* The last call was Data() on the point the call before it picked.
DataOfPicked ==
    /\ done.op = "Data" /\ before.op = "Pick" /\ before.p = done.p
    /\ Len(before.data.bytes) <= PickLen

\* Pick took all of a payload that fits.
NothingLeft ==
    (done.op = "Pick" /\ Len(done.data.bytes) <= PickLen)
    => done.rem.bytes = <<>>

\* C7 as stated: for every payload d of at most PickLen() bytes, nil
\* included, and every random stream, Data() on the point Pick(d, rand)
\* returned gives d and a nil error, and Pick returns an empty remainder.
C7_AnyPayload ==
    /\ DataOfPicked => (done.err = "nil" /\ done.out.bytes = before.data.bytes)
    /\ NothingLeft

\* C7: embedding round trip.  For every non-nil payload d of at most
\* PickLen() bytes, the empty one included, and every random stream, Data()
\* on the point Pick(d, rand) returned gives d and a nil error, and Pick
\* returns an empty remainder.
C7_EmbeddedData ==
    /\ (DataOfPicked /\ ~before.data.isNil)
          => (done.err = "nil" /\ ~done.out.isNil
              /\ done.out.bytes = before.data.bytes)
    /\ NothingLeft

\* Data() gives back the byte 'A' picked into a point whose x is not below P,
\* found on the second try.
C7_Witness ==
    /\ DataOfPicked
    /\ before.data = Out(<<65>>)
    /\ done.out = Out(<<65>>)
    /\ done.err = "nil"
    /\ Value(done.p).x = 16728321
    /\ Value(done.p).y = P - 726438

\* The last call decoded the encoding MarshalBinary returned for a point of
\* the group.
DecodedSent ==
    /\ done.op = "UnmarshalBinary"
    /\ wire.valid /\ wire.grp /\ done.buf = wire.bytes

\* Decoding an encoding gives an Equal point; the identity goes through the
\* all-zero body.
DecodesEqual ==
    DecodedSent
    => /\ done.err = "nil"
       /\ Equal(Value(done.p), wire.pt)
       /\ IsInf(wire.pt)
             => (BodyIsZero(wire.bytes) /\ done.path = "zero"
                 /\ Value(done.p) = Inf)

\* C8: point encode/decode round trip.  For every point the group's
\* operations (Null, Base, Pick, Add, Sub, Neg, Mul) produce, MarshalBinary
\* returns an encoding, and UnmarshalBinary of it returns no error and leaves
\* a point Equal to the encoded one; the identity's encoding has an all-zero
\* body and decodes through the all-zero branch to (0, 0).
C8_RoundTrip ==
    /\ (done.op = "MarshalBinary" /\ done.grp) => done.err = "nil"
    /\ DecodesEqual

\* The round trip with the library that computes on any coordinates.
RoundTripLenient == ~strict => C8_RoundTrip

\* The round trip of the points whose coordinates are below P.
RoundTripOfReduced ==
    (done.op = "MarshalBinary" /\ done.grp
        /\ Value(done.p).x < P /\ Value(done.p).y < P)
    => done.err = "nil"

\* C9: reduced coordinates.  The coordinates Equal compares and the
\* coordinates MarshalBinary encodes are at least 0 and below P, whatever
\* calls the point went through.
C9_Reduced ==
    (done.op \in {"Equal", "MarshalBinary"} /\ done.err = "nil")
    => \A i \in 1..Len(done.used) : done.used[i] >= 0 /\ done.used[i] < P

\* What Equal compares is reduced.
ComparedReduced ==
    (done.op = "Equal")
    => /\ Len(done.used) = 4
       /\ \A i \in 1..Len(done.used) : done.used[i] >= 0 /\ done.used[i] < P

\* buf has the length and the header of an encoding and carries the identity
\* or a point of the curve.
WellFormed(buf) ==
    /\ Len(buf) = PointLen
    /\ buf[1] = 4
    /\ (IsInf(Carried(buf)) \/ IsOnCurve(FALSE, Carried(buf)))

\* C10: malformed encodings are reported.  UnmarshalBinary returns an error
\* for every buffer that is not the encoding of the identity or of a point of
\* the curve, wrong lengths and wrong headers included, and when it returns
\* nil the receiver is Valid().
C10_MalformedReported ==
    (done.op = "UnmarshalBinary")
    => /\ ~WellFormed(done.buf) => done.err = "invalid"
       /\ done.err = "nil" => Valid(strict, Value(done.p))

\* A nil error leaves a Valid() receiver, and a buffer with a non-zero body
\* that is not well formed is reported.
AcceptedIsValid ==
    (done.op = "UnmarshalBinary")
    => /\ done.err = "nil" => Valid(strict, Value(done.p))
       /\ (done.buf # <<>> /\ ~BodyIsZero(done.buf) /\ ~WellFormed(done.buf))
             => done.err = "invalid"

\* What a caller can read from a point holding the coordinates a: its
\* String(), its Data() and its MarshalBinary().
Observed(s, a) ==
    [str |-> String(a), data |-> Data(a.x), enc |-> MarshalBinary(s, a)]

\* p holds the very big.Ints that q holds, as after q = p.Clone() or
\* q.Set(p), or after Base() on both.
SharesWith(p, q) ==
    /\ p # q
    /\ Assigned(p)
    /\ pts[p].x = pts[q].x
    /\ pts[p].y = pts[q].y

\* The calls the claim takes on the copy.
OnCopy ==
    {"Equal", "Null", "Base", "Pick", "Add", "Sub", "Neg", "Mul",
     "UnmarshalBinary"}

\* A call of one of the kinds `kinds` on a point leaves every point that
\* shares its big.Ints with the same String(), Data() and MarshalBinary().
LeavesSharers(kinds) ==
    \A p \in Points :
        (done'.op \in kinds /\ SharesWith(p, done'.p))
        => Observed(strict, ValueIn(heap', pts', p))
              = Observed(strict, Value(p))

\* C11: no aliasing between a point and its copy.  After q = p.Clone() or
\* q.Set(p), no call on q (Equal, Null, Base, Pick, Add, Sub, Neg, Mul,
\* UnmarshalBinary) changes the coordinates p holds: p's String(), Data() and
\* MarshalBinary() give the same before and after the call.
C11_NoAliasing == [][LeavesSharers(OnCopy)]_vars

\* Every call on the copy but Equal leaves the point it was copied from.
OnlyEqualWrites == [][LeavesSharers(OnCopy \ {"Equal"})]_vars

\* Equal on the copy leaves a point whose coordinates are below P.
EqualKeepsReduced ==
    [][\A p \in Points :
          (done'.op = "Equal" /\ SharesWith(p, done'.p)
              /\ Value(p).x < P /\ Value(p).y < P)
          => ValueIn(heap', pts', p) = Value(p)]_vars

\* Set and Clone leave every other point's coordinates as they were, and the
\* copy holds the very big.Ints of the point copied.
CopyKeepsSource ==
    [][(done'.op \in {"Set", "Clone"} /\ ops' = ops + 1)
          => /\ pts'[done'.a] = pts'[done'.p]
             /\ \A p \in Points :
                   Assigned(p) /\ pts'[p] = pts[p]
                   => ValueIn(heap', pts', p) = Value(p)]_vars

-----------------------------------------------------------------------------
(* In-place Open.                                                          *)

\* The last call was Open(src[:0], src) on at least KeySize() bytes.
InPlaceOpened ==
    last.op = "Open" /\ last.inPlace /\ Len(last.src) >= KeySize

\* Open(nil, src) on a cipher in the state the last call found.
Disjoint == Open(last.pre, NilBuf, last.src, FALSE)

\* Open(src[:0], src) on a cipher in the state the last call found.
Overlaid == Open(last.pre, InPlaceDst(last.src), last.src, TRUE)

\* C12: in-place Open is equivalent to out-of-place Open.  For every src of
\* at least KeySize() bytes, Open(src[:0], src) ends as Open with a disjoint
\* dst does on a cipher in the same state: the same error, the same
\* plaintext, the same calls on the CipherState and the same state after
\* them, and the first call is fed the ciphertext src[:l], unchanged, as its
\* key.
C12_InPlaceEquivalent ==
    InPlaceOpened
    => /\ last.err = Overlaid.err
       /\ last.out = Overlaid.out
       /\ cs[last.c] = Overlaid.st
       /\ Overlaid.err = Disjoint.err
       /\ Overlaid.out = Disjoint.out
       /\ Overlaid.st = Disjoint.st
       /\ Overlaid.calls = Disjoint.calls
       /\ Overlaid.fed = Disjoint.fed
       /\ Overlaid.calls # <<>>
             => Overlaid.fed = SubSeq(last.src, 1, Len(last.src) - KeySize)

\* The clone of the sealing cipher opened a sealed one-byte message in place
\* and got the message back.
C12_Witness ==
    /\ InPlaceOpened
    /\ OpensAsSealer
    /\ last.src = sealed.out
    /\ sealed.src = <<104>>
    /\ last.err = "nil"
    /\ last.out = Out(<<104>>)
    /\ last.calls = <<"Message", "Message">>

\* An in-place Open that fails authentication is equivalent too.
C12_WitnessRejected ==
    /\ InPlaceOpened
    /\ last.err = "auth"
    /\ Disjoint.err = "auth"
====
